---------------------------- MODULE Spec2Model ----------------------------
(***************************************************************************)
(* bf16::bfloat16_t (include/bfloat16/bfloat16.hpp): a 16-bit value that   *)
(* holds the upper half of a 32-bit float.                                 *)
(*                                                                         *)
(* A 32-bit word (uint32_t, or the bits of a float) is a record            *)
(* [hi, lo] of its two 16-bit halves, so that every operation keeps its    *)
(* width: additions and subtractions carry from lo into hi and wrap at     *)
(* 2^32, as uint32_t arithmetic does.  A 16-bit word (uint16_t) is a       *)
(* number in 0 .. 65535.                                                   *)
(***************************************************************************)
EXTENDS Integers, FiniteSets

VARIABLES
    origin,   \* how the object was last built: which constructor or factory
    f,        \* the float handed to bfloat16_t(float), or NoFloat
    data,     \* bfloat16_t::data, the object's only field
    ret       \* the last call on the object: its name, operands and result

vars == <<origin, f, data, ret>>

----------------------------------------------------------------------------
(* Bounds of the inputs.                                                   *)

\* Inputs lie within Spread of the anchor patterns below.
Spread == 2

----------------------------------------------------------------------------
(* Machine words.                                                          *)

Word16 == \h10000

RECURSIVE BitAnd(_, _)
\* a & b on naturals, bit by bit.
BitAnd(a, b) ==
    IF a = 0 \/ b = 0 THEN 0
    ELSE (IF a % 2 = 1 /\ b % 2 = 1 THEN 1 ELSE 0) + 2 * BitAnd(a \div 2, b \div 2)

RECURSIVE BitXor(_, _)
\* a ^ b on naturals, bit by bit.
BitXor(a, b) ==
    IF a = 0 THEN b
    ELSE IF b = 0 THEN a
    ELSE (IF a % 2 = b % 2 THEN 0 ELSE 1) + 2 * BitXor(a \div 2, b \div 2)

\* The uint32_t holding the value n (n below 2^31).
U32(n) == [hi |-> n \div Word16, lo |-> n % Word16]

\* a + b in uint32_t: the carry of the low halves goes into the high
\* halves, and the carry out of the high halves is dropped.
Add32(a, b) ==
    LET lo == a.lo + b.lo
    IN  [hi |-> (a.hi + b.hi + lo \div Word16) % Word16, lo |-> lo % Word16]

\* a - b in uint32_t: borrows from the high half, wraps below zero.
Sub32(a, b) ==
    LET borrow == IF a.lo < b.lo THEN 1 ELSE 0
    IN  [hi |-> (a.hi - b.hi - borrow) % Word16, lo |-> (a.lo - b.lo) % Word16]

RECURSIVE BitOr(_, _)
\* a | b on naturals, bit by bit.
BitOr(a, b) ==
    IF a = 0 THEN b
    ELSE IF b = 0 THEN a
    ELSE (IF a % 2 = 1 \/ b % 2 = 1 THEN 1 ELSE 0) + 2 * BitOr(a \div 2, b \div 2)

And32(a, b) == [hi |-> BitAnd(a.hi, b.hi), lo |-> BitAnd(a.lo, b.lo)]

Or32(a, b) == [hi |-> BitOr(a.hi, b.hi), lo |-> BitOr(a.lo, b.lo)]

Xor32(a, b) == [hi |-> BitXor(a.hi, b.hi), lo |-> BitXor(a.lo, b.lo)]

\* ~a in uint32_t.
Not32(a) == [hi |-> Word16 - 1 - a.hi, lo |-> Word16 - 1 - a.lo]

\* a >> n in uint32_t, for 0 < n <= 16.
Shr32(a, n) ==
    [hi |-> a.hi \div 2^n,
     lo |-> (a.hi % 2^n) * 2^(16 - n) + a.lo \div 2^n]

\* a << 16 in uint32_t.
Shl16(a) == [hi |-> a.lo, lo |-> 0]

\* static_cast<uint16_t>(a): the low 16 bits.
ToU16(a) == a.lo

\* static_cast<int16_t>(a): the low 16 bits, read as two's complement.
ToI16(a) == IF a.lo >= Word16 \div 2 THEN a.lo - Word16 ELSE a.lo

----------------------------------------------------------------------------
(* The class's constants.                                                  *)

SIGN_MASK == \h8000
EXP_MASK == \h7F80
MANT_MASK == \h007F
EXP_SHIFT == 7
EXP_BIAS == 127

\* The rounding constant of the constructor: float_bits += 0x7FFF.
ROUND_ADD == \h7FFF

\* std::numeric_limits<int16_t>::max()
INT16_MAX == \h7FFF

\* std::bit_cast<uint32_t>(0.5f)
HALF == [hi |-> \h3F00, lo |-> 0]

----------------------------------------------------------------------------
(* Conversions.                                                            *)

\* The constructor rounding with 0x8000, which takes the midpoint up.
bfloat16_t_ties_up(value) ==
    LET float_bits == Add32(value, U32(\h8000))
    IN  ToU16(Shr32(float_bits, 16))

\* The constructor with one digit too many in its rounding constant.
bfloat16_t_wide_add(value) ==
    LET float_bits == Add32(value, U32(\h7FFFF))
    IN  ToU16(Shr32(float_bits, 16))

\* bfloat16_t(float value): the data of the object built from the float
\* whose bits are value.
bfloat16_t(value) ==
    LET float_bits == Add32(value, U32(ROUND_ADD))
    IN  ToU16(Shr32(float_bits, 16))

\* operator float() without the shift: the bits land in the low half.
operator_float_no_shift(d) == U32(d)

\* operator float(): the bits of the float returned.
operator_float(d) == Shl16(U32(d))

\* uint16_t bits() const
bits(d) == d

----------------------------------------------------------------------------
(* Comparison, negation, classification, components.                       *)

\* auto operator<=>(const bfloat16_t&) const = default: the members are
\* compared in order, and data is the only member.
operator_cmp(a, b) ==
    IF a < b THEN "less" ELSE IF a = b THEN "equal" ELSE "greater"

\* operator== comparing the values as floats do: a NaN equals nothing and
\* the two zeros are equal.
operator_eq_as_float(a, b) ==
    LET exp_all_ones(d) == BitAnd(d, EXP_MASK) = EXP_MASK
        mantissa(d) == BitAnd(d, MANT_MASK)
        nan_(d) == exp_all_ones(d) /\ mantissa(d) # 0
        zero_(d) == BitAnd(d, EXP_MASK + MANT_MASK) = 0
    IN  /\ ~nan_(a)
        /\ ~nan_(b)
        /\ (a = b \/ (zero_(a) /\ zero_(b)))

\* bool operator==(const bfloat16_t&) const = default
operator_eq(a, b) == a = b

\* a < b, which the language rewrites to (a <=> b) < 0
operator_lt(a, b) == operator_cmp(a, b) = "less"

\* operator-() setting the sign bit instead of flipping it.
operator_neg_sets_sign(d) == ToU16(Or32(U32(d), U32(SIGN_MASK)))

\* bfloat16_t operator-() const: the data of the result.
operator_neg(d) == ToU16(Xor32(U32(d), U32(SIGN_MASK)))

is_nan(d) ==
    /\ And32(U32(d), U32(EXP_MASK)) = U32(EXP_MASK)
    /\ And32(U32(d), U32(MANT_MASK)) # U32(0)

is_infinity(d) ==
    /\ And32(U32(d), U32(EXP_MASK)) = U32(EXP_MASK)
    /\ And32(U32(d), U32(MANT_MASK)) = U32(0)

\* is_zero() without the mask: negative zero is not a zero.
is_zero_no_mask(d) == U32(d) = U32(0)

is_zero(d) == And32(U32(d), Not32(U32(SIGN_MASK))) = U32(0)

is_negative(d) == And32(U32(d), U32(SIGN_MASK)) # U32(0)

\* get_exponent() without its test for zero.
get_exponent_no_zero_test(d) ==
    IF is_nan(d) \/ is_infinity(d) THEN INT16_MAX
    ELSE ToI16(Sub32(Shr32(And32(U32(d), U32(EXP_MASK)), EXP_SHIFT), U32(EXP_BIAS)))

get_exponent(d) ==
    IF is_zero(d) THEN 0
    ELSE IF is_nan(d) \/ is_infinity(d) THEN INT16_MAX
    ELSE ToI16(Sub32(Shr32(And32(U32(d), U32(EXP_MASK)), EXP_SHIFT), U32(EXP_BIAS)))

get_mantissa(d) == ToU16(And32(U32(d), U32(MANT_MASK)))

get_sign(d) == is_negative(d)

----------------------------------------------------------------------------
(* Named values.                                                           *)

zero == 0

infinity == ToU16(U32(EXP_MASK))

negative_infinity == ToU16(Or32(U32(SIGN_MASK), U32(EXP_MASK)))

\* nan() without the mantissa bit: the pattern of infinity.
nan_no_mantissa == ToU16(U32(EXP_MASK))

nan == ToU16(Or32(U32(EXP_MASK), U32(\h0001)))

limits_min == \h0080

limits_lowest == \hFF7F

limits_max == \h7F7F

limits_epsilon == \h3C00

limits_round_error == bfloat16_t(HALF)

limits_infinity == infinity

limits_quiet_NaN == nan

limits_denorm_min == \h0001

\* The factories of the class and the members of its numeric_limits.
Named ==
    [ zero |-> zero, infinity |-> infinity,
      negative_infinity |-> negative_infinity, nan |-> nan,
      limits_min |-> limits_min, limits_lowest |-> limits_lowest,
      limits_max |-> limits_max, limits_epsilon |-> limits_epsilon,
      limits_round_error |-> limits_round_error,
      limits_infinity |-> limits_infinity,
      limits_quiet_NaN |-> limits_quiet_NaN,
      limits_denorm_min |-> limits_denorm_min ]

----------------------------------------------------------------------------
(* Inputs.                                                                 *)

\* Where the 16-bit layout changes class: the zeros, the first normal
\* numbers, the constants of the limits table, 1, 1.5, 2, 4 and 8, the
\* infinities, the first, the quiet and the last NaN pattern of each sign.
Anchors16 ==
    { \h0000, \h0080, \h3C00, \h3F00, \h3F80, \h3FC0, \h4000, \h4080,
      \h4100, \h7F80, \h7FC0, \h8000, \h8080, \hBF80, \hFF80, \hFFC0,
      \hFFFF }

\* Where the discarded half of a float changes the rounding: nothing to
\* round, the midpoint, all ones.
AnchorsLow == { \h0000, \h8000, \hFFFF }

Around(anchors) ==
    UNION { { b \in (a - Spread) .. (a + Spread) : b >= 0 /\ b < Word16 } : a \in anchors }

Patterns16 == Around(Anchors16)

PatternsLow == Around(AnchorsLow)

Floats == [hi : Patterns16, lo : PatternsLow]

NoFloat == [hi |-> -1, lo |-> -1]

NoRet == [op |-> "none"]

----------------------------------------------------------------------------
(* The object and the calls on it.                                         *)

\* constexpr bfloat16_t() noexcept : data(0)
Init ==
    /\ origin = "default"
    /\ f = NoFloat
    /\ data = 0
    /\ ret = NoRet

\* x = bfloat16_t(value)
Construct(value) ==
    /\ origin' = "float"
    /\ f' = value
    /\ data' = bfloat16_t(value)
    /\ ret' = NoRet

\* x.bits() = b, through the reference that bits() returns
SetBits(b) ==
    /\ origin' = "bits"
    /\ f' = NoFloat
    /\ data' = b
    /\ ret' = NoRet

\* x = bfloat16_t::zero(), ..., x = std::numeric_limits<bfloat16_t>::min(), ...
SetNamed(name) ==
    /\ origin' = name
    /\ f' = NoFloat
    /\ data' = Named[name]
    /\ ret' = NoRet

\* static_cast<float>(x)
ToFloat ==
    /\ ret' = [op |-> "float", arg |-> data, val |-> operator_float(data)]
    /\ UNCHANGED <<origin, f, data>>

\* bfloat16_t(static_cast<float>(x)).bits(): the float just returned is
\* narrowed into a second object.
Renarrow ==
    /\ ret.op = "float"
    /\ ret' = [op |-> "renarrow", arg |-> data, val |-> bits(bfloat16_t(ret.val))]
    /\ UNCHANGED <<origin, f, data>>

\* -x
Negate ==
    /\ ret' = [op |-> "neg", arg |-> data, val |-> operator_neg(data)]
    /\ UNCHANGED <<origin, f, data>>

\* x == other, x <=> other, x < other
Compare(other) ==
    /\ ret' = [op |-> "cmp", arg |-> data, rhs |-> other,
               eq |-> operator_eq(data, other),
               cmp |-> operator_cmp(data, other),
               lt |-> operator_lt(data, other)]
    /\ UNCHANGED <<origin, f, data>>

\* x.is_nan(), x.is_infinity(), x.is_zero(), x.is_negative()
Classify ==
    /\ ret' = [op |-> "classify", arg |-> data,
               is_nan |-> is_nan(data), is_infinity |-> is_infinity(data),
               is_zero |-> is_zero(data), is_negative |-> is_negative(data)]
    /\ UNCHANGED <<origin, f, data>>

\* x.get_exponent(), x.get_mantissa(), x.get_sign()
Components ==
    /\ ret' = [op |-> "components", arg |-> data,
               exponent |-> get_exponent(data),
               mantissa |-> get_mantissa(data),
               sign |-> get_sign(data)]
    /\ UNCHANGED <<origin, f, data>>

\* The calls on an object that holds a 16-bit pattern.
Next ==
    \/ \E b \in Patterns16 : SetBits(b)
    \/ \E name \in DOMAIN Named : SetNamed(name)
    \/ ToFloat
    \/ Renarrow
    \/ Negate
    \/ \E other \in Patterns16 : Compare(other)
    \/ Classify
    \/ Components

Spec == Init /\ [][Next]_vars

\* The calls on an object that is built from floats.
NextFloat ==
    \/ \E value \in Floats : Construct(value)
    \/ ToFloat
    \/ Classify

SpecFloat == Init /\ [][NextFloat]_vars

----------------------------------------------------------------------------
(* The bit layouts the properties speak of.                                *)

\* The fields of a 16-bit pattern: 1 sign bit, 8 exponent bits, 7 mantissa
\* bits, from the top.
SignBit(b) == b \div 32768

ExpField(b) == (b \div 128) % 256

MantField(b) == b % 128

\* A 32-bit float: its upper half has the same three fields, and its lower
\* half holds 16 more mantissa bits.
IsNaN32(v) == ExpField(v.hi) = 255 /\ (MantField(v.hi) # 0 \/ v.lo # 0)

IsInf32(v) == ExpField(v.hi) = 255 /\ MantField(v.hi) = 0 /\ v.lo = 0

IsFinite32(v) == ExpField(v.hi) # 255

----------------------------------------------------------------------------
(* Properties.                                                             *)

C2_NaNPassesThrough ==
    (origin = "float" /\ IsNaN32(f)) =>
        /\ is_nan(data)
        /\ (ret.op = "float" => IsNaN32(ret.val))

\* C3: a float whose lower 16 bits are zero, narrowed and widened again,
\* gives back exactly its own bit pattern.
C3_ExactRoundTrip ==
    (origin = "float" /\ f.lo = 0 /\ ret.op = "float") => ret.val = f

\* 1.0f (0x3F800000) has been narrowed and widened.
C3_Witness ==
    /\ origin = "float"
    /\ f = [hi |-> 16256, lo |-> 0]
    /\ ret.op = "float"
    /\ ret.val = f

\* C4: a == b holds iff the bit patterns are equal and a < b iff a's
\* pattern is the smaller unsigned number; so +0 and -0 are not equal,
\* a NaN pattern equals itself, and of a < b, a == b, b < a exactly one
\* holds.
C4_RawBitsComparison ==
    ret.op = "cmp" =>
        LET a == ret.arg
            b == ret.rhs
        IN  /\ ret.eq <=> (bits(a) = bits(b))
            /\ ret.lt <=> (bits(a) < bits(b))
            /\ (ExpField(a) = 0 /\ MantField(a) = 0 /\ ExpField(b) = 0
                    /\ MantField(b) = 0 /\ SignBit(a) # SignBit(b)) => ~ret.eq
            /\ (bits(a) = bits(b) /\ ExpField(a) = 255 /\ MantField(a) # 0) => ret.eq
            /\ Cardinality({ c \in {"lt", "eq", "gt"} :
                    \/ c = "lt" /\ ret.lt
                    \/ c = "eq" /\ ret.eq
                    \/ c = "gt" /\ operator_lt(b, a) }) = 1
            /\ ret.cmp = "less" <=> ret.lt
            /\ ret.cmp = "equal" <=> ret.eq

\* +0 has been compared with -0: not equal, and less.
C4_Witness ==
    /\ ret.op = "cmp"
    /\ ret.arg = 0
    /\ ret.rhs = 32768
    /\ ~ret.eq
    /\ ret.lt

\* C5: the members of numeric_limits have the published patterns: min
\* 0x0080, lowest 0xFF7F, max 0x7F7F, epsilon 0x3C00, denorm_min 0x0001,
\* infinity 0x7F80, quiet_NaN 0x7F81, round_error the narrowed 0.5
\* (0x3F00); infinity is an infinity, quiet_NaN a NaN, and min, max,
\* lowest, epsilon, denorm_min are neither NaN nor infinity nor zero.
C5_LimitsPatterns ==
    /\ origin = "limits_min" => bits(data) = 128
    /\ origin = "limits_lowest" => bits(data) = 65407
    /\ origin = "limits_max" => bits(data) = 32639
    /\ origin = "limits_epsilon" => bits(data) = 15360
    /\ origin = "limits_denorm_min" => bits(data) = 1
    /\ origin = "limits_infinity" => bits(data) = 32640 /\ is_infinity(data)
    /\ origin = "limits_quiet_NaN" => bits(data) = 32641 /\ is_nan(data)
    /\ origin = "limits_round_error" => bits(data) = 16128
    /\ origin \in {"limits_min", "limits_lowest", "limits_max",
                   "limits_epsilon", "limits_denorm_min"} =>
            ~is_nan(data) /\ ~is_infinity(data) /\ ~is_zero(data)
    /\ (ret.op = "classify" /\ origin = "limits_infinity") =>
            ret.is_infinity /\ ~ret.is_nan
    /\ (ret.op = "classify" /\ origin = "limits_quiet_NaN") =>
            ret.is_nan /\ ~ret.is_infinity

\* quiet_NaN() has been taken and classified.
C5_Witness ==
    /\ origin = "limits_quiet_NaN"
    /\ bits(data) = 32641
    /\ ret.op = "classify"
    /\ ret.is_nan

\* C6: is_zero() iff all bits but the sign bit are zero; is_negative() iff
\* the sign bit is set; is_infinity() iff the exponent field is all ones
\* and the mantissa field zero; is_nan() iff the exponent field is all
\* ones and the mantissa field nonzero; at most one of is_zero,
\* is_infinity, is_nan holds.
C6_Classification ==
    ret.op = "classify" =>
        LET d == ret.arg
        IN  /\ ret.is_zero <=> (ExpField(d) = 0 /\ MantField(d) = 0)
            /\ ret.is_negative <=> (SignBit(d) = 1)
            /\ ret.is_infinity <=> (ExpField(d) = 255 /\ MantField(d) = 0)
            /\ ret.is_nan <=> (ExpField(d) = 255 /\ MantField(d) # 0)
            /\ ~(ret.is_zero /\ ret.is_infinity)
            /\ ~(ret.is_zero /\ ret.is_nan)
            /\ ~(ret.is_infinity /\ ret.is_nan)

\* Negative zero has been classified: a zero, and negative.
C6_Witness ==
    /\ ret.op = "classify"
    /\ ret.arg = 32768
    /\ ret.is_zero
    /\ ret.is_negative

\* C7: get_exponent() is 0 for a zero, 32767 for a NaN or an infinity, and
\* otherwise the exponent field minus 127 (-127 for a subnormal);
\* get_mantissa() is the low 7 bits of the pattern.
C7_Components ==
    ret.op = "components" =>
        LET d == ret.arg
        IN  /\ ret.exponent =
                    IF ExpField(d) = 0 /\ MantField(d) = 0 THEN 0
                    ELSE IF ExpField(d) = 255 THEN 32767
                    ELSE ExpField(d) - 127
            /\ (ExpField(d) = 0 /\ MantField(d) # 0) => ret.exponent = -127
            /\ ret.mantissa = d % 128

\* The components of a subnormal pattern have been read.
C7_Witness ==
    /\ ret.op = "components"
    /\ ExpField(ret.arg) = 0
    /\ MantField(ret.arg) # 0
    /\ ret.exponent = -127

\* C8: -x has the bits of x with the sign bit flipped, x is unchanged, the
\* exponent and mantissa fields and the class (NaN, infinity, zero) of -x
\* are those of x, and -(-x) has the bits of x.
C8_NegationFlipsSign ==
    ret.op = "neg" =>
        LET x == ret.arg
            r == ret.val
        IN  /\ bits(r) = IF bits(x) >= 32768 THEN bits(x) - 32768 ELSE bits(x) + 32768
            /\ data = x
            /\ ExpField(r) = ExpField(x)
            /\ MantField(r) = MantField(x)
            /\ is_nan(r) = is_nan(x)
            /\ is_infinity(r) = is_infinity(x)
            /\ is_zero(r) = is_zero(x)
            /\ bits(operator_neg(r)) = bits(x)

\* A negative NaN has been negated.
C8_Witness ==
    /\ ret.op = "neg"
    /\ is_nan(ret.arg)
    /\ SignBit(ret.arg) = 1
    /\ SignBit(ret.val) = 0
    /\ is_nan(ret.val)

\* C9: +infinity narrows to 0x7F80 and -infinity to 0xFF80; a finite float
\* narrows to a value of the same sign that is not a NaN, and that is an
\* infinity only when the add carried into the exponent field (the result
\* is the upper 16 bits plus one).
C9_OverflowToInfinity ==
    origin = "float" =>
        /\ f = [hi |-> 32640, lo |-> 0] => bits(data) = 32640
        /\ f = [hi |-> 65408, lo |-> 0] => bits(data) = 65408
        /\ IsInf32(f) => is_infinity(data)
        /\ IsFinite32(f) =>
              /\ SignBit(bits(data)) = SignBit(f.hi)
              /\ ~is_nan(data)
              /\ is_infinity(data) =>
                    (bits(data) = f.hi + 1 /\ ExpField(f.hi) = 254 /\ f.lo > 32768)

\* A finite float has been narrowed to an infinity.
C9_Witness ==
    /\ origin = "float"
    /\ IsFinite32(f)
    /\ is_infinity(data)

\* C10: a value with bits b, widened to a float and narrowed again, has
\* bits b, for NaN, infinity, subnormal and zero patterns as for the rest.
C10_WidenThenNarrow ==
    ret.op = "renarrow" => (ret.val = bits(ret.arg) /\ ret.arg = data)

\* The last NaN pattern, 0xFFFF, has been widened and narrowed again.
C10_Witness ==
    /\ ret.op = "renarrow"
    /\ ret.arg = 65535
    /\ ret.val = 65535

============================================================================
